---- MODULE Spec2Model ----
(***************************************************************************)
(* The mutinynet faucet: the spend ledger (payments.rs), the admission     *)
(* checks of the HTTP handlers (main.rs) and the payment rails             *)
(* (onchain.rs, lightning.rs, channel.rs, payjoin.rs) as one state         *)
(* machine.  Every request is handled by its own task; a step of a task    *)
(* is the code between two points where the task can be suspended on the   *)
(* ledger mutex or on a call to the node.                                  *)
(***************************************************************************)
EXTENDS Integers, Sequences, FiniteSets, TLC

\* ------------------------------------------------------------ constants

\* main.rs:77
MAX_SEND_AMOUNT == 1000000

\* payments.rs:9, in seconds
CACHE_DURATION == 86400

\* ------------------------------------------------------------ bounds

\* requests accepted by the server in one behaviour
MaxRequests == 2

\* clock advances in one behaviour
MaxTicks == 2

\* the tasks that handle requests at the same time, in the order in which a
\* new request takes a free one
TaskOrder == <<"t1", "t2">>

Tasks == {TaskOrder[i] : i \in DOMAIN TaskOrder}

\* how far the clock moves in one advance: half of the retention window, so
\* that a record is seen at an age below CACHE_DURATION, at exactly
\* CACHE_DURATION and above it
TickSteps == {CACHE_DURATION \div 2}

\* ------------------------------------------------------------ Option<T>

None == <<>>

Some(x) == <<x>>

IsSome(o) == o # <<>>

Unwrap(o) == o[1]

\* Option::or
OptionOr(a, b) == IF IsSome(a) THEN a ELSE b

\* ------------------------------------------------------------ inputs

\* the x-forwarded-for header of a request: the address of a client, or any
\* other text the client chooses to send
HeaderInputs == {Some("1.2.3.4"), Some("tb1qa")}

\* the authenticated users (auth.rs: AuthUser.username)
UserInputs == {"alice"}

\* OnchainRequest.address
AddressInputs ==
    {"tb1qa", "bitcoin:tb1qa?amount=0.01", "bc1qmain", "lntbs1noamt", "garbage"}

\* OnchainRequest.sats
SatsInputs == {None, Some(MAX_SEND_AMOUNT), Some(MAX_SEND_AMOUNT + 1)}

\* LightningRequest.bolt11 and LnurlWithdrawParams.pr
Bolt11Inputs ==
    {"lntbs6m", "lntbs10m999p", "lntbs10m1u", "lntbs1noamt", "lnurl1pay",
     "npub1zap", "tb1qa", "garbage"}

\* LnurlWithdrawParams.k1
K1Inputs == {"k1", "other"}

\* ChannelRequest
CapacityInputs == {-1, MAX_SEND_AMOUNT \div 2, MAX_SEND_AMOUNT, MAX_SEND_AMOUNT + 1}

PushAmountInputs == {-1, 0, MAX_SEND_AMOUNT}

PubkeyInputs == {"02ab", "zz"}

HostInputs == {None, Some("peer:9735")}

\* the request that opens a channel of half of MAX_SEND_AMOUNT
PlainChannelRequest ==
    [capacity |-> MAX_SEND_AMOUNT \div 2, push_amount |-> 0, pubkey |-> "02ab", host |-> None]

\* the ChannelRequest bodies: PlainChannelRequest, and the bodies that differ
\* from it in one field
ChannelRequests ==
    {r \in [capacity : CapacityInputs, push_amount : PushAmountInputs,
            pubkey : PubkeyInputs, host : HostInputs] :
        Cardinality({f \in DOMAIN r : r[f] # PlainChannelRequest[f]}) <= 1}

\* headers.get("x-forwarded-for").and_then(to_str).unwrap_or("Unknown")
XForwardedFor(header) == IF IsSome(header) THEN Unwrap(header) ELSE "Unknown"

\* state.network
Network == "signet"

\* a bolt11 invoice: its text and Bolt11Invoice::amount_milli_satoshis
Invoice(text, msat) == [text |-> text, amount_msat |-> msat]

\* what PaymentParams carries when nothing was recognised in the text
NoParams ==
    [ok |-> TRUE, address |-> None, amount |-> None, invoice |-> None,
     lnurl |-> None, nostr_pubkey |-> None]

\* bitcoin_waila::PaymentParams::from_str on the inputs above: whether the
\* text parses, and the address (its canonical text and the network it is
\* valid for), the amount in satoshis, the invoice, the lnurl and the nostr
\* public key it carries
PaymentParamsFromStr(s) ==
    CASE s = "tb1qa" ->
           [NoParams EXCEPT !.address = Some([text |-> "tb1qa", network |-> "signet"])]
      [] s = "bitcoin:tb1qa?amount=0.01" ->
           [NoParams EXCEPT !.address = Some([text |-> "tb1qa", network |-> "signet"]),
                            !.amount = Some(1000000)]
      [] s = "bc1qmain" ->
           [NoParams EXCEPT !.address = Some([text |-> "bc1qmain", network |-> "bitcoin"])]
      [] s = "lntbs6m" ->
           [NoParams EXCEPT !.invoice = Some(Invoice(s, Some(600000000))),
                            !.amount = Some(600000)]
      [] s = "lntbs10m999p" ->
           [NoParams EXCEPT !.invoice = Some(Invoice(s, Some(1000000999))),
                            !.amount = Some(1000000)]
      [] s = "lntbs10m1u" ->
           [NoParams EXCEPT !.invoice = Some(Invoice(s, Some(1000001000))),
                            !.amount = Some(1000001)]
      [] s = "lntbs1noamt" ->
           [NoParams EXCEPT !.invoice = Some(Invoice(s, None))]
      [] s = "lnurl1pay" ->
           [NoParams EXCEPT !.lnurl = Some("https://pay.example/lnurlp")]
      [] s = "npub1zap" ->
           [NoParams EXCEPT !.nostr_pubkey = Some("npub1zap")]
      [] OTHER ->
           [NoParams EXCEPT !.ok = FALSE]

\* Address::to_string
AddressToString(address) == address.text

\* format!("github:{}", user.username)
UserKey(user) == "github:" \o user

\* ------------------------------------------------------------ PaymentTracker

Payment(time, amount) == [time |-> time, amount |-> amount]

\* add_payment putting the new record at the front of the deque
TrackerAddPayment_PushFront(payments, amount, t) == <<Payment(t, amount)>> \o payments

\* the test of the eviction loop keeping a record aged exactly CACHE_DURATION
IsFresh_UpToWindow(payment, t) == t - payment.time <= CACHE_DURATION

\* PaymentTracker::add_payment with Instant::now() = t
TrackerAddPayment(payments, amount, t) == Append(payments, Payment(t, amount))

\* the test of the eviction loop: the record is kept
IsFresh(payment, t) == t - payment.time < CACHE_DURATION

\* a tracker that never forgets a record
clean_old_payments_KeepsAll(payments, t) == payments

\* clean_old_payments popping the front record before it tests the next one
clean_old_payments_PopsFirst(payments, t) ==
    IF payments = <<>> THEN <<>>
    ELSE SelectSeq(Tail(payments), LAMBDA p : t - p.time < CACHE_DURATION)

\* PaymentTracker::clean_old_payments with Instant::now() = t
RECURSIVE clean_old_payments(_, _)
clean_old_payments(payments, t) ==
    IF payments = <<>> THEN <<>>
    ELSE IF IsFresh(Head(payments), t) THEN payments
    ELSE clean_old_payments(Tail(payments), t)

\* self.payments.iter().map(|p| p.amount).sum()
RECURSIVE SumAmounts(_)
SumAmounts(payments) ==
    IF payments = <<>> THEN 0
    ELSE Head(payments).amount + SumAmounts(Tail(payments))

\* PaymentTracker::sum_payments: the value returned
sum_payments(payments, t) == SumAmounts(clean_old_payments(payments, t))

\* ------------------------------------------------------------ PaymentsByIp

\* PaymentsByIp::new
NewTrackers == [k \in {} |-> <<>>]

\* trackers.get_mut(key): is there a tracker
HasTracker(trk, key) == key \in DOMAIN trk

\* a read that makes an empty tracker for a key that has none
Cleaned_Inserts(trk, key, t) ==
    [k \in DOMAIN trk \cup {key} |->
        IF k \in DOMAIN trk
        THEN (IF k = key THEN clean_old_payments(trk[k], t) ELSE trk[k])
        ELSE <<>>]

\* the map after tracker.sum_payments() ran on the tracker of key, if any
Cleaned(trk, key, t) ==
    IF HasTracker(trk, key)
    THEN [trk EXCEPT ![key] = clean_old_payments(trk[key], t)]
    ELSE trk

\* PaymentsByIp::add_payment_impl under the lock
add_payment_impl(trk, key, amount, t) ==
    [k \in (DOMAIN trk) \cup {key} |->
        IF k = key
        THEN TrackerAddPayment(IF HasTracker(trk, key) THEN trk[key] ELSE <<>>, amount, t)
        ELSE trk[k]]

\* PaymentsByIp::get_total_payments under the lock: the total returned and
\* the map it leaves
get_total_payments(trk, key, t) ==
    [total |-> IF HasTracker(trk, key) THEN sum_payments(trk[key], t) ELSE 0,
     trackers |-> Cleaned(trk, key, t)]

\* verify_payments without the test of the destination's own total
VerifyDecision_NoAddressCap(total, addr_amt) ==
    total >= MAX_SEND_AMOUNT * 10

\* verify_payments counting a request of MAX_SEND_AMOUNT into the total
VerifyDecision_CountsRequest(total, addr_amt) ==
    total + MAX_SEND_AMOUNT >= MAX_SEND_AMOUNT * 10 \/ addr_amt >= MAX_SEND_AMOUNT

\* the comparison closing verify_payments
VerifyDecision(total, addr_amt) ==
    total >= MAX_SEND_AMOUNT * 10 \/ addr_amt >= MAX_SEND_AMOUNT

\* PaymentsByIp::verify_payments under the lock: address and user are
\* Options; the answer (TRUE rejects), the sums it computed and the map it
\* leaves
verify_payments(trk, ip, address, user, t) ==
    LET ipGot == get_total_payments(trk, ip, t)
        trk1 == ipGot.trackers
        adGot == IF IsSome(address)
                 THEN get_total_payments(trk1, AddressToString(Unwrap(address)), t)
                 ELSE [total |-> 0, trackers |-> trk1]
        trk2 == adGot.trackers
        usGot == IF IsSome(user)
                 THEN get_total_payments(trk2, UserKey(Unwrap(user)), t)
                 ELSE [total |-> 0, trackers |-> trk2]
        total == ipGot.total + adGot.total + usGot.total
        addr_amt == adGot.total
    IN [reject |-> VerifyDecision(total, addr_amt),
        total |-> total,
        addr_amt |-> addr_amt,
        trackers |-> usGot.trackers]

\* ------------------------------------------------------------ state

VARIABLES
    now,        \* the monotonic clock (Instant::now), in seconds
    ticks,      \* clock advances so far
    nreq,       \* requests accepted so far
    trackers,   \* PaymentsByIp.trackers: key -> VecDeque<Payment>
    task,       \* per task: where it is in its handler, and the handler's locals
    last,       \* the handler that returned in the latest step, if one did: its locals
    history,    \* key -> every Payment ever appended under the key (never evicted)
    sends,      \* the send_coins calls the node has answered with success
    leases      \* the wallet outputs the node holds a lease on, with the expiry of each

vars == <<now, ticks, nreq, trackers, task, last, history, sends, leases>>

\* a task that handles no request
IdleTask ==
    [pc |-> "idle", rail |-> "none", ip |-> "", address |-> None, user |-> None,
     amount |-> 0, invoice |-> None,
     check |-> "none", total |-> 0, addr_amt |-> 0,
     rpc |-> "none", recorded |-> <<>>, before |-> <<>>,
     trace |-> <<>>, selected |-> None, contributed |-> None, result |-> "none",
     proposal |-> None, finalized |-> None, body |-> None,
     guard |-> "none", held_at_rpc |-> FALSE,
     funding |-> 0, push_sat |-> 0]

Sent(dest, amount, t) == [dest |-> dest, amount |-> amount, time |-> t]

\* the ledger as AppState::new leaves it
Init ==
    /\ now = 0
    /\ ticks = 0
    /\ nreq = 0
    /\ trackers = NewTrackers
    /\ task = [t \in Tasks |-> IdleTask]
    /\ last = IdleTask
    /\ history = NewTrackers
    /\ sends = <<>>
    /\ leases = {}

\* nine payments of MAX_SEND_AMOUNT, then one of half of it
PriorPayments ==
    [i \in 1..9 |-> Payment(0, MAX_SEND_AMOUNT)] \o <<Payment(0, MAX_SEND_AMOUNT \div 2)>>

\* the ledger after ten channel openings from one client within the last
\* second, 9,500,000 sats in all
InitPrior ==
    /\ now = 0
    /\ ticks = 0
    /\ nreq = 0
    /\ trackers = [k \in {"1.2.3.4"} |-> PriorPayments]
    /\ history = trackers
    /\ task = [t \in Tasks |-> IdleTask]
    /\ last = IdleTask
    /\ sends = <<>>
    /\ leases = {}

\* ------------------------------------------------------------ steps shared by the rails

\* a request is handled on a task of its own: the first free one
Free(t) ==
    /\ last = IdleTask
    /\ nreq < MaxRequests
    /\ \E i \in DOMAIN TaskOrder :
          /\ TaskOrder[i] = t
          /\ task[t].pc = "idle"
          /\ \A j \in 1..(i - 1) : task[TaskOrder[j]].pc # "idle"

\* the task is at pc, about to take the step that starts there
At(t, pc) == last = IdleTask /\ task[t].pc = pc

\* the locals of a handler that starts
Started(rail, ip) == [IdleTask EXCEPT !.pc = "running", !.rail = rail, !.ip = ip]

\* the task goes on to pc with locals tk, or, at pc "done", its handler
\* returns tk.result and the task is free again
Continue(t, tk) ==
    IF tk.pc = "done"
    THEN /\ task' = [task EXCEPT ![t] = IdleTask]
         /\ last' = tk
    ELSE /\ task' = [task EXCEPT ![t] = tk]
         /\ last' = IdleTask

\* the handler returns: Err(msg) or Ok
Returned(tk, result) == [tk EXCEPT !.pc = "done", !.result = result]

\* self.trackers.lock().await: the task holds the guard of the map
Lock(tk) == [tk EXCEPT !.guard = "held"]

\* a method of PaymentsByIp returning with its guard still alive
Unlock_Kept(tk) == tk

\* the guard is dropped where the method that locked ends
Unlock(tk) == [tk EXCEPT !.guard = "none"]

\* the task awaits an answer of the node: whether it holds the guard of
\* the map meanwhile
Awaited(tk) == [tk EXCEPT !.held_at_rpc = (@ \/ tk.guard = "held")]

\* the records ever appended under key
HistoryOf(key) == IF key \in DOMAIN history THEN history[key] ELSE <<>>

\* one add_payment_impl call, for key: the map, and the log of what was ever
\* appended
LedgerAppend(key, amount) ==
    /\ trackers' = add_payment_impl(trackers, key, amount, now)
    /\ history' = [k \in DOMAIN history \cup {key} |->
                      IF k = key THEN Append(HistoryOf(k), Payment(now, amount))
                      ELSE history[k]]

\* add_payment returning after the address key, the user key left out
AfterAddPayment_SkipsUser(tk, stage) ==
    IF stage = "ip" /\ IsSome(tk.address) THEN "add_payment_address"
    ELSE IF stage = "ip" /\ IsSome(tk.user) THEN "add_payment_user"
    ELSE IF tk.rail = "onchain" THEN "send_coins"
    ELSE "done"

\* where PaymentsByIp::add_payment goes after the add_payment_impl call
\* named by stage: the next key that is present, or back to its caller
AfterAddPayment(tk, stage) ==
    IF stage = "ip" /\ IsSome(tk.address) THEN "add_payment_address"
    ELSE IF stage \in {"ip", "address"} /\ IsSome(tk.user) THEN "add_payment_user"
    ELSE IF tk.rail = "onchain" THEN "send_coins"
    ELSE "done"

\* the task after the add_payment_impl call named by stage, made for key
Added(tk, stage, key) ==
    LET next == AfterAddPayment(tk, stage)
    IN Unlock([Lock(tk) EXCEPT !.pc = next,
                                !.recorded = Append(@, key),
                                !.result = IF next = "done" THEN "ok" ELSE @])

\* PaymentsByIp::add_payment, first call: self.add_payment_impl(ip, amount)
add_payment_ip(t) ==
    /\ At(t, "add_payment_ip")
    /\ LedgerAppend(task[t].ip, task[t].amount)
    /\ Continue(t, Added(task[t], "ip", task[t].ip))
    /\ UNCHANGED <<now, ticks, nreq, sends, leases>>

\* PaymentsByIp::add_payment, second call: the address key
add_payment_address(t) ==
    /\ At(t, "add_payment_address")
    /\ LedgerAppend(Unwrap(task[t].address), task[t].amount)
    /\ Continue(t, Added(task[t], "address", Unwrap(task[t].address)))
    /\ UNCHANGED <<now, ticks, nreq, sends, leases>>

\* PaymentsByIp::add_payment, third call: the user key
add_payment_user(t) ==
    /\ At(t, "add_payment_user")
    /\ LedgerAppend(UserKey(Unwrap(task[t].user)), task[t].amount)
    /\ Continue(t, Added(task[t], "user", UserKey(Unwrap(task[t].user))))
    /\ UNCHANGED <<now, ticks, nreq, sends, leases>>

\* the value a handler returned goes out as the response of its request
\* (Result<Json<_>, AppError> through IntoResponse); a response touches
\* nothing the other tasks read, so it is taken before they go on
into_response ==
    /\ last # IdleTask
    /\ last' = IdleTask
    /\ UNCHANGED <<now, ticks, nreq, trackers, task, history, sends, leases>>

\* time passes; the clock is read in whole seconds, and the handlers that run
\* together read the same second; the clock starts with the first record,
\* or lease, since nothing reads it before; the node drops the leases that
\* have expired
Tick ==
    /\ last = IdleTask
    /\ ticks < MaxTicks
    /\ DOMAIN history # {} \/ leases # {}
    /\ \A t \in Tasks : task[t].pc = "idle"
    /\ \E d \in TickSteps : now' = now + d
    /\ ticks' = ticks + 1
    /\ last' = IdleTask
    /\ leases' = {l \in leases : l.expires > now'}
    /\ UNCHANGED <<nreq, trackers, task, history, sends>>

\* ------------------------------------------------------------ on-chain rail

\* pay_onchain without the test of the amount against MAX_SEND_AMOUNT
PayOnchainChecks_NoAmountCap(payload) ==
    LET params == PaymentParamsFromStr(payload.address)
        address == Unwrap(params.address)
        amount == OptionOr(params.amount, payload.sats)
    IN IF ~params.ok \/ ~IsSome(params.address)
            THEN [ok |-> FALSE, err |-> "invalid address"]
       ELSE IF address.network # Network
            THEN [ok |-> FALSE, err |-> "invalid address, are you sure that's a signet address?"]
       ELSE IF ~IsSome(amount)
            THEN [ok |-> FALSE, err |-> "invalid amount"]
       ELSE [ok |-> TRUE, address |-> AddressToString(address), amount |-> Unwrap(amount)]

\* pay_onchain up to its add_payment call: the address and the amount to
\* send, or the error it returns
PayOnchainChecks(payload) ==
    LET params == PaymentParamsFromStr(payload.address)
        address == Unwrap(params.address)
        amount == OptionOr(params.amount, payload.sats)
    IN IF ~params.ok \/ ~IsSome(params.address)
            THEN [ok |-> FALSE, err |-> "invalid address"]
       ELSE IF address.network # Network
            THEN [ok |-> FALSE, err |-> "invalid address, are you sure that's a signet address?"]
       ELSE IF ~IsSome(amount)
            THEN [ok |-> FALSE, err |-> "invalid amount"]
       ELSE IF Unwrap(amount) > MAX_SEND_AMOUNT
            THEN [ok |-> FALSE, err |-> "max amount is 1,000,000"]
       ELSE [ok |-> TRUE, address |-> AddressToString(address), amount |-> Unwrap(amount)]

\* onchain_handler, then pay_onchain up to its add_payment call
onchain_handler(t, header, user, payload) ==
    /\ Free(t)
    /\ nreq' = nreq + 1
    /\ LET ip == XForwardedFor(header)
           tk == [Started("onchain", ip) EXCEPT !.user = Some(user)]
           params == PaymentParamsFromStr(payload.address)
           v == verify_payments(trackers, ip, params.address, Some(user), now)
           pay == PayOnchainChecks(payload)
           checked == Unlock([Lock(tk) EXCEPT
                                 !.address = Some(AddressToString(Unwrap(params.address))),
                                 !.check = IF v.reject THEN "reject" ELSE "accept",
                                 !.total = v.total,
                                 !.addr_amt = v.addr_amt])
       IN IF ~params.ok \/ ~IsSome(params.address)
          THEN /\ Continue(t, Returned(tk, "invalid address"))
               /\ UNCHANGED trackers
          ELSE /\ trackers' = v.trackers
               /\ Continue(t,
                     IF v.reject THEN Returned(checked, "Too many payments")
                     ELSE IF ~pay.ok THEN Returned(checked, pay.err)
                     ELSE [checked EXCEPT !.pc = "add_payment_ip",
                                          !.amount = pay.amount])
    /\ UNCHANGED <<now, ticks, history, sends, leases>>

\* pay_onchain: wallet_client.send_coins(req).await?
send_coins(t, ok) ==
    /\ At(t, "send_coins")
    /\ Continue(t, Returned([Awaited(task[t]) EXCEPT !.rpc = IF ok THEN "ok" ELSE "err"],
                            IF ok THEN "ok" ELSE "rpc error"))
    /\ sends' = IF ok
                THEN Append(sends, Sent(Unwrap(task[t].address), task[t].amount, now))
                ELSE sends
    /\ UNCHANGED <<now, ticks, nreq, trackers, history, leases>>

Onchain(t) ==
    \/ \E header \in HeaderInputs, user \in UserInputs,
          address \in AddressInputs, sats \in SatsInputs :
            onchain_handler(t, header, user, [address |-> address, sats |-> sats])
    \/ \E ok \in BOOLEAN : send_coins(t, ok)

\* ------------------------------------------------------------ channel rail

\* payload.capacity as u64; 2^64 is beyond the integers TLC handles, so a
\* negative capacity is carried as itself and caught by WrapsAsU64
AsU64(n) == n

\* the cast changes the value
WrapsAsU64(n) == n < 0

\* hex::decode(&payload.pubkey)
HexDecodes(text) == text \in {"02ab", "aa11"}

\* what the node answers while open_channel looks for the peer:
\* list_peers(..).await? fails, lists the peer, or does not list it, and
\* then connect_peer(..).await.ok() is made, whose answer is dropped
PeerAnswers == {"list_peers_err", "connected", "absent"}

\* the node is asked about the peer only when payload.host is given
PeerAnswersFor(payload) ==
    IF IsSome(payload.host) THEN PeerAnswers ELSE {"absent"}

\* open_channel without the test of push_amount against capacity
OpenChannelChecks_PushUnbounded(payload, peers) ==
    IF payload.capacity > MAX_SEND_AMOUNT
        THEN [ok |-> FALSE, err |-> "max capacity is 1,000,000"]
    ELSE IF payload.push_amount < 0
        THEN [ok |-> FALSE, err |-> "push_amount must be positive"]
    ELSE IF ~HexDecodes(payload.pubkey)
        THEN [ok |-> FALSE, err |-> "invalid pubkey"]
    ELSE IF IsSome(payload.host) /\ peers = "list_peers_err"
        THEN [ok |-> FALSE, err |-> "rpc error"]
    ELSE [ok |-> TRUE]

\* open_channel up to its open_channel_sync call: the error it returns, if
\* any; peers is the answer of the node when payload.host is given
OpenChannelChecks(payload, peers) ==
    IF payload.capacity > MAX_SEND_AMOUNT
        THEN [ok |-> FALSE, err |-> "max capacity is 1,000,000"]
    ELSE IF payload.push_amount < 0
        THEN [ok |-> FALSE, err |-> "push_amount must be positive"]
    ELSE IF payload.push_amount > payload.capacity
        THEN [ok |-> FALSE, err |-> "push_amount must be less than or equal to capacity"]
    ELSE IF ~HexDecodes(payload.pubkey)
        THEN [ok |-> FALSE, err |-> "invalid pubkey"]
    ELSE IF IsSome(payload.host) /\ peers = "list_peers_err"
        THEN [ok |-> FALSE, err |-> "rpc error"]
    ELSE [ok |-> TRUE]

\* the admission test of lightning_handler, lnurlw_callback_handler and
\* channel_handler
TotalDecision(total) == total > MAX_SEND_AMOUNT * 10

\* what the node answers to open_channel_sync: an error, or a ChannelPoint
\* whose funding_txid is bytes, a string of hex digits, a string that is not
\* hex, or absent
OpenChannelAnswers == {"err", "txid_bytes", "txid_str", "txid_bad_str", "txid_none"}

\* the node is asked to open the channel only when the checks pass
OpenChannelAnswersFor(payload, peers) ==
    IF OpenChannelChecks(payload, peers).ok THEN OpenChannelAnswers ELSE {"err"}

\* open_channel from its open_channel_sync call to its add_payment call:
\* lightning_client.open_channel_sync(..).await?, then the funding txid of the
\* answer is decoded
open_channel_sync(tk, payload, resp) ==
    LET opened == [Awaited(tk) EXCEPT !.rpc = "ok", !.amount = payload.capacity,
                                      !.funding = payload.capacity,
                                      !.push_sat = payload.push_amount]
    IN CASE resp = "err" ->
              Returned([opened EXCEPT !.rpc = "err"], "rpc error")
         [] resp = "txid_none" -> Returned(opened, "failed to open channel")
         [] resp = "txid_bad_str" -> Returned(opened, "hex decode error")
         [] OTHER -> [opened EXCEPT !.pc = "add_payment_ip", !.amount = AsU64(@)]

\* channel_handler, then open_channel up to its add_payment call; the calls
\* to the node read and write nothing that another task reads, so their
\* answers are taken in the same step
channel_handler(t, header, payload, peers, resp) ==
    /\ Free(t)
    /\ nreq' = nreq + 1
    /\ LET ip == XForwardedFor(header)
           got == get_total_payments(trackers, ip, now)
           reject == TotalDecision(got.total)
           tk == Unlock([Lock(Started("channel", ip)) EXCEPT
                            !.check = IF reject THEN "reject" ELSE "accept",
                            !.total = got.total])
           chk == OpenChannelChecks(payload, peers)
       IN /\ trackers' = got.trackers
          /\ Continue(t,
                IF reject THEN Returned(tk, "Too many payments")
                ELSE IF ~chk.ok THEN Returned(tk, chk.err)
                ELSE open_channel_sync(tk, payload, resp))
    /\ UNCHANGED <<now, ticks, history, sends, leases>>

Channel(t) ==
    \E header \in HeaderInputs, payload \in ChannelRequests :
       \E peers \in PeerAnswersFor(payload) :
          \E resp \in OpenChannelAnswersFor(payload, peers) :
             channel_handler(t, header, payload, peers, resp)

\* ------------------------------------------------------------ Lightning rails

\* the invoices a remote lnurl service may answer with, by text
RemoteInvoiceInputs == {"lntbs10n", "lntbs10m1u", "lntbs1noamt", "garbage"}

\* LnUrlPayResponse.min_sendable, in millisatoshis
MinSendableInputs == {1000, MAX_SEND_AMOUNT + 1}

\* what the network answers while pay_lightning resolves its invoice:
\* whether the relays give a profile that names an lnurl (nostr branch),
\* what the lnurl service answers to make_request ("err", a pay response
\* with min_sendable, or another response) and to get_invoice ("err" or the
\* text of an invoice)
NetworkAnswers ==
    [profile : BOOLEAN,
     request : {"err", "other", "pay"},
     min_sendable : MinSendableInputs,
     invoice : {"err"} \cup RemoteInvoiceInputs]

\* the answers that pay_lightning can tell apart for the text it is given:
\* one value for each answer it never asks for
NetworkAnswersFor(bolt11) ==
    LET params == PaymentParamsFromStr(bolt11)
        unasked == [profile |-> TRUE, request |-> "err",
                    min_sendable |-> 1000, invoice |-> "err"]
    IN {net \in NetworkAnswers :
          /\ (~IsSome(params.nostr_pubkey) => net.profile)
          /\ (~IsSome(params.lnurl) /\ ~IsSome(params.nostr_pubkey) => net = unasked)
          /\ (~net.profile => net.request = "err")
          /\ (net.request # "pay" => net.min_sendable = 1000)
          /\ (net.request # "pay" \/ net.min_sendable > MAX_SEND_AMOUNT
                  => net.invoice = "err")}

\* Bolt11Invoice::from_str
Bolt11InvoiceFromStr(text) ==
    IF text = "lntbs10n" THEN Some(Invoice(text, Some(1000)))
    ELSE PaymentParamsFromStr(text).invoice

\* the satoshis an invoice asks for, rounded down; 0 when it names no amount
InvoiceSats(invoice) ==
    IF IsSome(invoice.amount_msat) THEN Unwrap(invoice.amount_msat) \div 1000 ELSE 0

\* pay_lightning, lnurl and nostr branches: make_request(&lnurl.url).await?,
\* the test of min_sendable, get_invoice(..).await? and
\* Bolt11Invoice::from_str(inv.invoice())?
LnurlInvoice(tk, net) ==
    IF net.request = "err" THEN Returned(tk, "lnurl error")
    ELSE IF net.request # "pay" THEN Returned(tk, "invalid lnurl")
    ELSE IF net.min_sendable > MAX_SEND_AMOUNT
         THEN Returned(tk, "max amount is 10,000,000")
    ELSE IF net.invoice = "err" THEN Returned(tk, "lnurl error")
    ELSE IF ~IsSome(Bolt11InvoiceFromStr(net.invoice))
         THEN Returned(tk, "invalid invoice")
    ELSE [tk EXCEPT !.pc = "send_payment_sync",
                    !.invoice = Bolt11InvoiceFromStr(net.invoice)]

\* pay_lightning up to its send_payment_sync call
ResolveInvoice(tk, bolt11, net) ==
    LET params == PaymentParamsFromStr(bolt11)
        invoice == Unwrap(params.invoice)
    IN IF ~params.ok THEN Returned(tk, "invalid bolt 11")
       ELSE IF IsSome(params.invoice)
       THEN IF IsSome(invoice.amount_msat)
            THEN IF Unwrap(invoice.amount_msat) \div 1000 > MAX_SEND_AMOUNT
                 THEN Returned(tk, "max amount is 10,000,000")
                 ELSE [tk EXCEPT !.pc = "send_payment_sync", !.invoice = Some(invoice)]
            ELSE Returned(tk, "bolt11 invoice should have an amount")
       ELSE IF IsSome(params.lnurl) THEN LnurlInvoice(tk, net)
       ELSE IF IsSome(params.nostr_pubkey)
       THEN IF net.profile THEN LnurlInvoice(tk, net) ELSE Returned(tk, "no lnurl")
       ELSE Returned(tk, "invalid bolt11")

\* what the node answers to send_payment_sync: an error, a response whose
\* payment_error is not empty, or a response with the preimage
SendPaymentAnswers == {"err", "payment_error", "ok"}

\* pay_lightning: lightning_client.send_payment_sync(..).await?, then the
\* test of response.payment_error
send_payment_sync(tk, resp) ==
    CASE resp = "err" -> Returned([Awaited(tk) EXCEPT !.rpc = "err"], "rpc error")
      [] resp = "payment_error" -> Returned([Awaited(tk) EXCEPT !.rpc = "err"], "Payment error")
      [] OTHER -> Returned([Awaited(tk) EXCEPT !.rpc = "ok"], "ok")

\* pay_lightning; it reads and writes nothing that another task reads, so
\* the answers of the network and of the node are taken in the step of the
\* handler that calls it
pay_lightning(tk, bolt11, net, resp) ==
    LET resolved == ResolveInvoice(tk, bolt11, net)
    IN IF resolved.pc = "send_payment_sync"
       THEN send_payment_sync(resolved, resp)
       ELSE resolved

\* the node is asked to pay only when pay_lightning has an invoice
SendPaymentAnswersFor(bolt11, net) ==
    IF ResolveInvoice(IdleTask, bolt11, net).pc = "send_payment_sync"
    THEN SendPaymentAnswers ELSE {"err"}

\* lightning_handler
lightning_handler(t, header, bolt11, net, resp) ==
    /\ Free(t)
    /\ nreq' = nreq + 1
    /\ LET ip == XForwardedFor(header)
           got == get_total_payments(trackers, ip, now)
           reject == TotalDecision(got.total)
           tk == Unlock([Lock(Started("lightning", ip)) EXCEPT
                            !.check = IF reject THEN "reject" ELSE "accept",
                            !.total = got.total])
       IN /\ trackers' = got.trackers
          /\ Continue(t, IF reject THEN Returned(tk, "Too many payments")
                         ELSE pay_lightning(tk, bolt11, net, resp))
    /\ UNCHANGED <<now, ticks, history, sends, leases>>

\* lnurlw_callback_handler
lnurlw_callback_handler(t, header, k1, pr, net, resp) ==
    /\ Free(t)
    /\ nreq' = nreq + 1
    /\ LET ip == XForwardedFor(header)
           got == get_total_payments(trackers, ip, now)
           reject == TotalDecision(got.total)
           tk == Unlock([Lock(Started("lnurlw", ip)) EXCEPT
                            !.check = IF reject THEN "reject" ELSE "accept",
                            !.total = got.total])
       IN IF k1 = "k1"
          THEN /\ trackers' = got.trackers
               /\ Continue(t, IF reject THEN Returned(tk, "Incorrect k1")
                              ELSE pay_lightning(tk, pr, net, resp))
          ELSE /\ Continue(t, Returned(Started("lnurlw", ip), "Incorrect k1"))
               /\ UNCHANGED trackers
    /\ UNCHANGED <<now, ticks, history, sends, leases>>

Lightning(t) ==
    \/ \E header \in HeaderInputs, bolt11 \in Bolt11Inputs :
          \E net \in NetworkAnswersFor(bolt11) :
             \E resp \in SendPaymentAnswersFor(bolt11, net) :
                lightning_handler(t, header, bolt11, net, resp)
    \/ \E header \in HeaderInputs, k1 \in K1Inputs, pr \in Bolt11Inputs :
          \E net \in NetworkAnswersFor(pr) :
             \E resp \in SendPaymentAnswersFor(pr, net) :
                lnurlw_callback_handler(t, header, k1, pr, net, resp)

\* ------------------------------------------------------------ payjoin rail

\* LeaseOutputRequest.expiration_seconds
LeaseSeconds == 30

\* LeaseOutputRequest.id
LeaseId == "payjoin"

\* the outputs of the node's wallet
Utxos == {"utxo1"}

\* the node grants a lease on outpoint to id unless another id holds one
Leasable(held, outpoint, id) ==
    \A l \in held : l.outpoint = outpoint => l.id = id

\* a lease that the node keeps until it is released
Leased_NoExpiry(held, outpoint, id, t) ==
    {l \in held : l.outpoint # outpoint}
        \cup {[outpoint |-> outpoint, id |-> id, expires |-> t + CACHE_DURATION * 365]}

\* the leases of the node after it granted one on outpoint to id at time t:
\* a lease of the same id is renewed
Leased(held, outpoint, id, t) ==
    {l \in held : l.outpoint # outpoint}
        \cup {[outpoint |-> outpoint, id |-> id, expires |-> t + LeaseSeconds]}

\* a payjoin request and what its checks find: whether the body parses, what
\* the node answers to test_mempool_accept (an error, no result, a result
\* that is not allowed, or one that is), whether an input pays to the
\* faucet's address, whether the input scripts are of mixed types,
\* whether an output pays to the faucet's address, and the outpoint its
\* input spends
ProposalInputs ==
    [parses : BOOLEAN,
     input : {"in1", "in2"},
     mempool : {"err", "empty", "rejected", "allowed"},
     owned : BOOLEAN,
     mixed : BOOLEAN,
     receiver_output : BOOLEAN]

\* the stages of payjoin_request that await an answer of the node
NodeStages ==
    {"check_can_broadcast", "list_unspent", "lease_output", "new_address",
     "fund_psbt", "sign_psbt", "finalize_psbt"}

\* the stage is entered
Entered(tk, stage) ==
    LET at == IF stage \in NodeStages THEN Awaited(tk) ELSE tk
    IN [at EXCEPT !.trace = Append(@, stage)]

\* an expect or unwrap fails and the task unwinds
Panicked(tk) == Returned(tk, "panic")

\* payjoin_request asking the ownership oracle before the broadcast check
PayjoinChecks_OwnershipFirst(tk, proposal) ==
    LET s1 == Entered(tk, "from_request")
        s2 == Entered(s1, "check_inputs_not_owned")
        s3 == Entered(s2, "check_can_broadcast")
        s4 == Entered(s3, "check_no_mixed_input_scripts")
        s5 == Entered(s4, "check_no_inputs_seen_before")
        s6 == Entered(s5, "identify_receiver_outputs")
    IN IF ~proposal.parses THEN Returned(s1, "failed to parse request")
       ELSE IF proposal.owned THEN Returned(s2, "Failed to validate inputs")
       ELSE IF proposal.mempool \in {"err", "empty"} THEN Panicked(s3)
       ELSE IF proposal.mempool = "rejected" THEN Returned(s3, "Failed to broadcast")
       ELSE IF proposal.mixed THEN Returned(s4, "Failed to validate input scripts")
       ELSE IF ~proposal.receiver_output
            THEN Returned(s6, "Failed to identify receiver outputs")
       ELSE [s6 EXCEPT !.pc = "list_unspent"]

\* payjoin_request with an ownership oracle that never reports an input as
\* the faucet's
PayjoinChecks_NothingOwned(tk, proposal) ==
    LET s1 == Entered(tk, "from_request")
        s2 == Entered(s1, "check_can_broadcast")
        s3 == Entered(s2, "check_inputs_not_owned")
        s4 == Entered(s3, "check_no_mixed_input_scripts")
        s5 == Entered(s4, "check_no_inputs_seen_before")
        s6 == Entered(s5, "identify_receiver_outputs")
    IN IF ~proposal.parses THEN Returned(s1, "failed to parse request")
       ELSE IF proposal.mempool \in {"err", "empty"} THEN Panicked(s2)
       ELSE IF proposal.mempool = "rejected" THEN Returned(s2, "Failed to broadcast")
       ELSE IF proposal.mixed THEN Returned(s4, "Failed to validate input scripts")
       ELSE IF ~proposal.receiver_output
            THEN Returned(s6, "Failed to identify receiver outputs")
       ELSE [s6 EXCEPT !.pc = "list_unspent"]

\* payjoin_request without check_no_mixed_input_scripts
PayjoinChecks_MixedAllowed(tk, proposal) ==
    LET s1 == Entered(tk, "from_request")
        s2 == Entered(s1, "check_can_broadcast")
        s3 == Entered(s2, "check_inputs_not_owned")
        s5 == Entered(s3, "check_no_inputs_seen_before")
        s6 == Entered(s5, "identify_receiver_outputs")
    IN IF ~proposal.parses THEN Returned(s1, "failed to parse request")
       ELSE IF proposal.mempool \in {"err", "empty"} THEN Panicked(s2)
       ELSE IF proposal.mempool = "rejected" THEN Returned(s2, "Failed to broadcast")
       ELSE IF proposal.owned THEN Returned(s3, "Failed to validate inputs")
       ELSE IF ~proposal.receiver_output
            THEN Returned(s6, "Failed to identify receiver outputs")
       ELSE [s6 EXCEPT !.pc = "list_unspent"]

\* payjoin_request going on to contribute inputs to a proposal that pays
\* nothing to the faucet
PayjoinChecks_IgnoresOutputs(tk, proposal) ==
    LET s1 == Entered(tk, "from_request")
        s2 == Entered(s1, "check_can_broadcast")
        s3 == Entered(s2, "check_inputs_not_owned")
        s4 == Entered(s3, "check_no_mixed_input_scripts")
        s5 == Entered(s4, "check_no_inputs_seen_before")
        s6 == Entered(s5, "identify_receiver_outputs")
    IN IF ~proposal.parses THEN Returned(s1, "failed to parse request")
       ELSE IF proposal.mempool \in {"err", "empty"} THEN Panicked(s2)
       ELSE IF proposal.mempool = "rejected" THEN Returned(s2, "Failed to broadcast")
       ELSE IF proposal.owned THEN Returned(s3, "Failed to validate inputs")
       ELSE IF proposal.mixed THEN Returned(s4, "Failed to validate input scripts")
       ELSE [s6 EXCEPT !.pc = "list_unspent"]

\* payjoin_request up to its try_contributing_inputs call
PayjoinChecks(tk, proposal) ==
    LET s1 == Entered(tk, "from_request")
        s2 == Entered(s1, "check_can_broadcast")
        s3 == Entered(s2, "check_inputs_not_owned")
        s4 == Entered(s3, "check_no_mixed_input_scripts")
        s5 == Entered(s4, "check_no_inputs_seen_before")
        s6 == Entered(s5, "identify_receiver_outputs")
    IN IF ~proposal.parses THEN Returned(s1, "failed to parse request")
       ELSE IF proposal.mempool \in {"err", "empty"} THEN Panicked(s2)
       ELSE IF proposal.mempool = "rejected" THEN Returned(s2, "Failed to broadcast")
       ELSE IF proposal.owned THEN Returned(s3, "Failed to validate inputs")
       ELSE IF proposal.mixed THEN Returned(s4, "Failed to validate input scripts")
       ELSE IF ~proposal.receiver_output
            THEN Returned(s6, "Failed to identify receiver outputs")
       ELSE [s6 EXCEPT !.pc = "list_unspent"]

\* payjoin_request up to the list_unspent call of try_contributing_inputs
payjoin_request(t, proposal) ==
    /\ Free(t)
    /\ nreq' = nreq + 1
    /\ Continue(t, PayjoinChecks([Started("payjoin", "") EXCEPT
                                      !.proposal = Some(proposal)], proposal))
    /\ UNCHANGED <<now, ticks, trackers, history, sends, leases>>

\* try_contributing_inputs up to its lease_output call: the node answers
\* list_unspent with an error, with no output, with an output that carries
\* no outpoint, or with outputs of its wallet, of which
\* try_preserving_privacy selects pick, if it selects one
list_unspent(t, resp, pick) ==
    /\ At(t, "list_unspent")
    /\ LET tk == Entered(task[t], "list_unspent")
           on == [tk EXCEPT !.pc = "new_address"]
       IN Continue(t,
            CASE resp = "err" -> on
              [] resp = "malformed" -> Panicked(tk)
              [] resp = "none" -> Entered(on, "try_preserving_privacy")
              [] OTHER ->
                   IF IsSome(pick)
                   THEN [Entered(tk, "try_preserving_privacy") EXCEPT
                            !.pc = "lease_output", !.selected = pick]
                   ELSE Entered(on, "try_preserving_privacy"))
    /\ UNCHANGED <<now, ticks, nreq, trackers, history, sends, leases>>

\* try_contributing_inputs with a refused lease ending the request
lease_output_Fatal(t, ok) ==
    /\ At(t, "lease_output")
    /\ LET tk == [Entered(task[t], "lease_output") EXCEPT !.pc = "new_address"]
       IN IF ok
          THEN /\ Leasable(leases, Unwrap(tk.selected), LeaseId)
               /\ leases' = Leased(leases, Unwrap(tk.selected), LeaseId, now)
               /\ Continue(t, [Entered(tk, "contribute_witness_input") EXCEPT
                                  !.contributed = tk.selected])
          ELSE /\ Continue(t, Returned(tk, "rpc error"))
               /\ UNCHANGED leases
    /\ UNCHANGED <<now, ticks, nreq, trackers, history, sends>>

\* try_contributing_inputs contributing the selected output whatever the
\* node answered to lease_output
lease_output_Unchecked(t, ok) ==
    /\ At(t, "lease_output")
    /\ LET tk == [Entered(task[t], "lease_output") EXCEPT !.pc = "new_address"]
       IN /\ Continue(t, [Entered(tk, "contribute_witness_input") EXCEPT
                             !.contributed = tk.selected])
          /\ IF ok
             THEN /\ Leasable(leases, Unwrap(tk.selected), LeaseId)
                  /\ leases' = Leased(leases, Unwrap(tk.selected), LeaseId, now)
             ELSE UNCHANGED leases
    /\ UNCHANGED <<now, ticks, nreq, trackers, history, sends>>

\* try_contributing_inputs from its lease_output call: lnd.lease_output(req)
\* .await?, then contribute_witness_input
lease_output(t, ok) ==
    /\ At(t, "lease_output")
    /\ LET tk == [Entered(task[t], "lease_output") EXCEPT !.pc = "new_address"]
       IN IF ok
          THEN /\ Leasable(leases, Unwrap(tk.selected), LeaseId)
               /\ leases' = Leased(leases, Unwrap(tk.selected), LeaseId, now)
               /\ Continue(t, [Entered(tk, "contribute_witness_input") EXCEPT
                                  !.contributed = tk.selected])
          ELSE /\ Continue(t, tk)
               /\ UNCHANGED leases
    /\ UNCHANGED <<now, ticks, nreq, trackers, history, sends>>

\* the texts in which the node may write a finalized psbt: one psbt with its
\* keys in the order rust-bitcoin writes them and in another order, and a
\* second psbt
PsbtTexts == {"cHNidP8ab", "cHNidP8ba", "cHNidP8cd"}

\* Psbt::from_str: the psbt a text carries, if it carries one; a psbt is a
\* map, so the order of its keys in the text is lost
PsbtFromStr(text) ==
    IF text \in {"cHNidP8ab", "cHNidP8ba"} THEN Some([keys |-> {"a", "b"}])
    ELSE IF text = "cHNidP8cd" THEN Some([keys |-> {"c", "d"}])
    ELSE None

\* payjoin::base64::encode(psbt.serialize()): the keys are written in order
PsbtBase64(psbt) ==
    IF "a" \in psbt.keys THEN "cHNidP8ab" ELSE "cHNidP8cd"

\* what the node answers to new_address (an error, a text that is no
\* address, an address), fund_psbt (an error, a psbt), sign_psbt (an error,
\* bytes that are no psbt, a psbt) and finalize_psbt (an error, a result
\* without a psbt, a text that is no psbt, a psbt in one of its texts)
FinalizeAnswers ==
    [new_address : {"err", "bad", "ok"},
     fund_psbt : {"err", "ok"},
     sign_psbt : {"err", "bad", "ok"},
     finalize_psbt : {"err", "none", "bad"} \cup PsbtTexts]

\* the answers payjoin_request can tell apart: one value for each answer it
\* never asks for
FinalizeAnswersAsked ==
    {a \in FinalizeAnswers :
        /\ (a.new_address # "ok" => a.fund_psbt = "err")
        /\ (a.fund_psbt # "ok" => a.sign_psbt = "err")
        /\ (a.sign_psbt # "ok" => a.finalize_psbt = "err")}

\* payjoin_request substituting the output address after the proposal was
\* signed
PayjoinFinalize_SubstitutesLate(tk, a) ==
    LET s1 == Entered(tk, "new_address")
        s2 == s1
        s3 == Entered(s2, "fund_psbt")
        s4 == Entered(s3, "sign_psbt")
        s5 == Entered(Entered([s4 EXCEPT !.rpc = "ok"], "substitute_output_address"),
                      "finalize_psbt")
    IN IF a.new_address = "err" THEN Returned(s1, "rpc error")
       ELSE IF a.new_address = "bad" THEN Returned(s1, "invalid address")
       ELSE IF a.fund_psbt = "err" THEN Panicked(s3)
       ELSE IF a.sign_psbt # "ok"
            THEN Returned([s4 EXCEPT !.rpc = "err"], "Failed to finalize proposal")
       ELSE IF a.finalize_psbt = "err" THEN Returned(s5, "rpc error")
       ELSE IF a.finalize_psbt = "none" THEN Panicked(s5)
       ELSE LET s6 == [s5 EXCEPT !.finalized = Some(a.finalize_psbt)]
                psbt == PsbtFromStr(a.finalize_psbt)
            IN IF ~IsSome(psbt) THEN Returned(s6, "invalid psbt")
               ELSE Returned([Entered(s6, "base64_encode") EXCEPT
                                 !.body = Some(PsbtBase64(Unwrap(psbt)))], "ok")

\* payjoin_request answering with the proposal it signed, whatever psbt the
\* node finalized
PayjoinFinalize_UnfinalizedBody(tk, a) ==
    LET s1 == Entered(tk, "new_address")
        s2 == Entered(s1, "substitute_output_address")
        s3 == Entered(s2, "fund_psbt")
        s4 == Entered(s3, "sign_psbt")
        s5 == Entered([s4 EXCEPT !.rpc = "ok"], "finalize_psbt")
    IN IF a.new_address = "err" THEN Returned(s1, "rpc error")
       ELSE IF a.new_address = "bad" THEN Returned(s1, "invalid address")
       ELSE IF a.fund_psbt = "err" THEN Panicked(s3)
       ELSE IF a.sign_psbt # "ok"
            THEN Returned([s4 EXCEPT !.rpc = "err"], "Failed to finalize proposal")
       ELSE IF a.finalize_psbt = "err" THEN Returned(s5, "rpc error")
       ELSE IF a.finalize_psbt = "none" THEN Panicked(s5)
       ELSE LET s6 == [s5 EXCEPT !.finalized = Some(a.finalize_psbt)]
                psbt == PsbtFromStr(a.finalize_psbt)
            IN IF ~IsSome(psbt) THEN Returned(s6, "invalid psbt")
               ELSE Returned([Entered(s6, "base64_encode") EXCEPT
                                 !.body = Some("cHNidP8cd")], "ok")

\* payjoin_request from its new_address call to its end
PayjoinFinalize(tk, a) ==
    LET s1 == Entered(tk, "new_address")
        s2 == Entered(s1, "substitute_output_address")
        s3 == Entered(s2, "fund_psbt")
        s4 == Entered(s3, "sign_psbt")
        s5 == Entered([s4 EXCEPT !.rpc = "ok"], "finalize_psbt")
    IN IF a.new_address = "err" THEN Returned(s1, "rpc error")
       ELSE IF a.new_address = "bad" THEN Returned(s1, "invalid address")
       ELSE IF a.fund_psbt = "err" THEN Panicked(s3)
       ELSE IF a.sign_psbt # "ok"
            THEN Returned([s4 EXCEPT !.rpc = "err"], "Failed to finalize proposal")
       ELSE IF a.finalize_psbt = "err" THEN Returned(s5, "rpc error")
       ELSE IF a.finalize_psbt = "none" THEN Panicked(s5)
       ELSE LET s6 == [s5 EXCEPT !.finalized = Some(a.finalize_psbt)]
                psbt == PsbtFromStr(a.finalize_psbt)
            IN IF ~IsSome(psbt) THEN Returned(s6, "invalid psbt")
               ELSE Returned([Entered(s6, "base64_encode") EXCEPT
                                 !.body = Some(PsbtBase64(Unwrap(psbt)))], "ok")

\* the node signs the faucet's part of the payjoin; the calls from new_address
\* on touch nothing that another task reads, so their answers are taken in
\* one step
finalize_proposal(t, answers) ==
    /\ At(t, "new_address")
    /\ Continue(t, PayjoinFinalize(task[t], answers))
    /\ UNCHANGED <<now, ticks, nreq, trackers, history, sends, leases>>

Payjoin(t) ==
    \/ \E proposal \in ProposalInputs : payjoin_request(t, proposal)
    \/ \E resp \in {"err", "malformed", "none", "utxos"} :
          \E pick \in (IF resp = "utxos" THEN {None} \cup {Some(u) : u \in Utxos}
                       ELSE {None}) :
             list_unspent(t, resp, pick)
    \/ \E ok \in BOOLEAN : lease_output(t, ok)
    \/ \E answers \in FinalizeAnswersAsked : finalize_proposal(t, answers)

\* ------------------------------------------------------------ PaymentsByIp called directly

\* the arguments of the public methods of PaymentsByIp
IpInputs == {XForwardedFor(header) : header \in HeaderInputs}

\* the destination and the user of a payment: neither, a destination, or a
\* destination and a user
DestinationInputs ==
    {[address |-> None, user |-> None]}
        \cup {[address |-> PaymentParamsFromStr("tb1qa").address, user |-> user] :
                 user \in {None} \cup {Some(u) : u \in UserInputs}}

AmountInputs == {MAX_SEND_AMOUNT \div 2, MAX_SEND_AMOUNT * 10 - MAX_SEND_AMOUNT \div 2}

KeyInputs == IpInputs \cup {UserKey(user) : user \in UserInputs}

\* Option<&Address> to the key it is recorded under
AddressKey(address) ==
    IF IsSome(address) THEN Some(AddressToString(Unwrap(address))) ELSE None

\* PaymentsByIp::add_payment called by one caller at a time, up to the end
\* of its first add_payment_impl call
call_add_payment(t, ip, address, user, amount) ==
    /\ Free(t)
    /\ \A u \in Tasks : task[u].pc = "idle"
    /\ nreq' = nreq + 1
    /\ LedgerAppend(ip, amount)
    /\ Continue(t, Added([Started("add_payment", ip) EXCEPT
                             !.address = AddressKey(address),
                             !.user = user,
                             !.amount = amount,
                             !.before = history],
                         "ip", ip))
    /\ UNCHANGED <<now, ticks, sends, leases>>

\* PaymentsByIp::get_total_payments called for key
call_get_total_payments(key) ==
    /\ last = IdleTask
    /\ LET got == get_total_payments(trackers, key, now)
       IN /\ trackers' = got.trackers
          /\ last' = Returned(Unlock([Lock(Started("get_total_payments", key)) EXCEPT
                                         !.total = got.total]), "ok")
    /\ UNCHANGED <<now, ticks, nreq, task, history, sends, leases>>

\* PaymentsByIp::verify_payments called for ip, address and user
call_verify_payments(ip, address, user) ==
    /\ last = IdleTask
    /\ LET v == verify_payments(trackers, ip, address, user, now)
       IN /\ trackers' = v.trackers
          /\ last' = Returned(Unlock([Lock(Started("verify_payments", ip)) EXCEPT
                                         !.address = AddressKey(address),
                                         !.user = user,
                                         !.check = IF v.reject THEN "reject" ELSE "accept",
                                         !.total = v.total,
                                         !.addr_amt = v.addr_amt]), "ok")
    /\ UNCHANGED <<now, ticks, nreq, task, history, sends, leases>>

NextLedger ==
    \/ \E t \in Tasks :
          \/ \E ip \in IpInputs, dest \in DestinationInputs, amount \in AmountInputs :
                call_add_payment(t, ip, dest.address, dest.user, amount)
          \/ add_payment_address(t)
          \/ add_payment_user(t)
    \/ \E key \in KeyInputs : call_get_total_payments(key)
    \/ \E ip \in IpInputs, dest \in DestinationInputs :
          call_verify_payments(ip, dest.address, dest.user)
    \/ into_response
    \/ Tick

\* ------------------------------------------------------------ the rails' contract

\* the requests in flight and the one that returned last
Requests == {task[t] : t \in Tasks} \cup {last}

\* the handlers that move value
Rails == {"onchain", "lightning", "lnurlw", "channel", "payjoin"}

\* C2: on every rail, a request reaches a disbursing call to the node only
\* after its admission check was made and accepted.
C2_RpcOnlyAfterAccept ==
    \A r \in Requests :
        (r.rail \in Rails /\ r.rpc # "none") => r.check = "accept"

\* C3: a request that returns with its disbursement made has a record under
\* its ip, which the next check of that ip counts.
C3_DisbursementRecorded ==
    (last.rail \in Rails /\ last.pc = "done" /\ last.rpc = "ok" /\ last.result = "ok")
        => /\ \E i \in DOMAIN last.recorded : last.recorded[i] = last.ip
           /\ get_total_payments(trackers, last.ip, now).total >= last.amount

\* C8: a request whose disbursing call did not succeed, or that returned
\* before it, has put no record in the ledger, and none is put before the
\* call has succeeded.
C8_RecordOnlyAfterSuccess ==
    \A r \in Requests :
        (r.rail \in Rails /\ r.rpc # "ok") => r.recorded = <<>>

\* C9: on the on-chain, Lightning, lnurl-withdraw and channel handlers alike,
\* a request whose check finds a recorded total of 10 * MAX_SEND_AMOUNT or
\* more is rejected.
C9_RejectsAtCapOnEveryRail ==
    \A r \in Requests :
        (/\ r.rail \in {"onchain", "lightning", "lnurlw", "channel"}
         /\ r.check # "none"
         /\ r.total >= 10 * MAX_SEND_AMOUNT)
            => r.check = "reject"

\* the amounts sent to dest from time from on, for less than CACHE_DURATION
RECURSIVE SentWithin(_, _, _)
SentWithin(sent, dest, from) ==
    IF sent = <<>> THEN 0
    ELSE (IF /\ Head(sent).dest = dest
             /\ Head(sent).time >= from
             /\ Head(sent).time - from < CACHE_DURATION
          THEN Head(sent).amount ELSE 0)
            + SentWithin(Tail(sent), dest, from)

\* C10: whatever the interleaving of on-chain requests, what is sent to one
\* address within any window of CACHE_DURATION is less than
\* 2 * MAX_SEND_AMOUNT.
C10_DestinationBounded ==
    \A i \in DOMAIN sends :
        SentWithin(sends, sends[i].dest, sends[i].time) < 2 * MAX_SEND_AMOUNT

\* ------------------------------------------------------------ the ledger's contract

\* the amounts of the records of payments that are younger than window now
RECURSIVE SumYoungerThan(_, _)
SumYoungerThan(payments, window) ==
    IF payments = <<>> THEN 0
    ELSE (IF now - Head(payments).time < window THEN Head(payments).amount ELSE 0)
            + SumYoungerThan(Tail(payments), window)

\* what the records ever appended under key add up to within the window
WindowTotal(key) == SumYoungerThan(HistoryOf(key), CACHE_DURATION)

\* the same for a key that may be absent from the call
OptionTotal(key) == IF IsSome(key) THEN WindowTotal(Unwrap(key)) ELSE 0

\* the key of the user of a call, if it has one
UserKeyOption(user) == IF IsSome(user) THEN Some(UserKey(Unwrap(user))) ELSE None

\* the latest step was a verify_payments call that returned
VerifyReturned == last.rail = "verify_payments" /\ last.pc = "done"

\* the latest step was a get_total_payments call that returned
TotalReturned == last.rail = "get_total_payments" /\ last.pc = "done"

\* C1: verify_payments rejects exactly when the window totals of the ip, the
\* destination and the identity add up to 10 * MAX_SEND_AMOUNT or more, or the
\* destination's own window total is MAX_SEND_AMOUNT or more; an absent or
\* never recorded key counts 0.
C1_RejectsIffOverCap ==
    VerifyReturned =>
        LET dest == OptionTotal(last.address)
            combined == WindowTotal(last.ip) + dest
                            + OptionTotal(UserKeyOption(last.user))
        IN (last.check = "reject")
              <=> (combined >= 10 * MAX_SEND_AMOUNT \/ dest >= MAX_SEND_AMOUNT)

\* a call is rejected for its destination alone: the ip and the identity have
\* no spend in the window, and all three totals stay below the combined cap
C1_Witness ==
    /\ VerifyReturned
    /\ last.check = "reject"
    /\ IsSome(last.address) /\ IsSome(last.user)
    /\ WindowTotal(last.ip) = 0
    /\ OptionTotal(UserKeyOption(last.user)) = 0
    /\ OptionTotal(last.address) >= MAX_SEND_AMOUNT
    /\ OptionTotal(last.address) < 10 * MAX_SEND_AMOUNT

\* the records of payments whose age at now is below CACHE_DURATION
Young(payments) ==
    SelectSeq(payments, LAMBDA p : now - p.time < CACHE_DURATION)

\* each record of payments follows the one before it by less than
\* CACHE_DURATION, and now follows the last one by less than CACHE_DURATION
Spaced(payments) ==
    /\ \A i \in 1..(Len(payments) - 1) :
          payments[i + 1].time - payments[i].time < CACHE_DURATION
    /\ payments # <<>> => now - payments[Len(payments)].time < CACHE_DURATION

\* C4 as stated: a total read for a key whose records are each less than
\* CACHE_DURATION after the one before is the sum of all of them.
C4_SpacedRecordsAllCounted ==
    (TotalReturned /\ Spaced(HistoryOf(last.ip)))
        => last.total = SumAmounts(HistoryOf(last.ip))

\* C4: a total read for a key whose records are all less than CACHE_DURATION
\* old at the read is the sum of all of them.
C4_YoungRecordsAllCounted ==
    (TotalReturned /\ Young(HistoryOf(last.ip)) = HistoryOf(last.ip))
        => last.total = SumAmounts(HistoryOf(last.ip))

\* a total is read for a key with records made at two different times, all
\* of them still young
C4_Witness ==
    /\ TotalReturned
    /\ Young(HistoryOf(last.ip)) = HistoryOf(last.ip)
    /\ \E i, j \in DOMAIN HistoryOf(last.ip) :
          HistoryOf(last.ip)[i].time # HistoryOf(last.ip)[j].time
    /\ last.total = SumAmounts(HistoryOf(last.ip))

\* the amounts of the records of payments whose age at now is CACHE_DURATION
\* or less
RECURSIVE SumNotOlderThan(_, _)
SumNotOlderThan(payments, window) ==
    IF payments = <<>> THEN 0
    ELSE (IF now - Head(payments).time <= window THEN Head(payments).amount ELSE 0)
            + SumNotOlderThan(Tail(payments), window)

\* C5 as stated: a total read counts exactly the records whose age is
\* CACHE_DURATION or less.
C5_CountsUpToWindow ==
    TotalReturned => last.total = SumNotOlderThan(HistoryOf(last.ip), CACHE_DURATION)

\* C5: a total read counts exactly the records whose age is less than
\* CACHE_DURATION, and leaves only those under the key: a record aged
\* CACHE_DURATION or more is evicted.
C5_CountsBelowWindow ==
    TotalReturned =>
        /\ last.total = SumYoungerThan(HistoryOf(last.ip), CACHE_DURATION)
        /\ HasTracker(trackers, last.ip) =>
              trackers[last.ip] = Young(HistoryOf(last.ip))

\* a total is read for a key that has a record aged exactly CACHE_DURATION
\* and a younger one
C5_Witness ==
    /\ TotalReturned
    /\ \E i, j \in DOMAIN HistoryOf(last.ip) :
          /\ now - HistoryOf(last.ip)[i].time = CACHE_DURATION
          /\ now - HistoryOf(last.ip)[j].time < CACHE_DURATION
    /\ last.total > 0

\* the call checked an ip alone: no destination and no identity
IpAlone == VerifyReturned /\ last.address = None /\ last.user = None

\* C6 as stated: with 9_500_000 recorded for the ip in the window, the check
\* made for a request of 600_000 rejects, as the request would make the total
\* exceed the cap.
C6_RejectsRequestOverCap ==
    (IpAlone /\ WindowTotal(last.ip) = 9500000
            /\ WindowTotal(last.ip) + 600000 >= 10 * MAX_SEND_AMOUNT)
        => last.check = "reject"

\* C6: the check of an ip alone accepts whenever the total recorded in the
\* window is below 10 * MAX_SEND_AMOUNT, so with 9_500_000 recorded a request
\* of 600_000 is accepted; it rejects once the recorded total is
\* 10 * MAX_SEND_AMOUNT or more.
C6_RejectsRecordedOverCap ==
    IpAlone =>
        /\ WindowTotal(last.ip) < 10 * MAX_SEND_AMOUNT => last.check = "accept"
        /\ WindowTotal(last.ip) >= 10 * MAX_SEND_AMOUNT => last.check = "reject"

\* an ip alone is checked with 9_500_000 recorded for it in the window
C6_Witness ==
    /\ IpAlone
    /\ WindowTotal(last.ip) = 9500000
    /\ last.check = "accept"

\* the latest step was the return of an add_payment call
AddReturned == last.rail = "add_payment" /\ last.pc = "done"

\* the records under key when the returned add_payment call was made
BeforeOf(key) == IF key \in DOMAIN last.before THEN last.before[key] ELSE <<>>

\* the records appended under key since the returned add_payment call was made
AppendedTo(key) ==
    SubSeq(HistoryOf(key), Len(BeforeOf(key)) + 1, Len(HistoryOf(key)))

\* the keys the returned add_payment call was given, in the order of its
\* parameters; an Option is a sequence of at most one key
SuppliedKeys == <<last.ip>> \o last.address \o UserKeyOption(last.user)

\* the same keys as a set
Supplied == {SuppliedKeys[i] : i \in DOMAIN SuppliedKeys}

\* one record of the call's amount under each supplied key, none elsewhere
OneRecordEach ==
    \A key \in DOMAIN history \cup Supplied :
        AppendedTo(key) = IF key \in Supplied
                             THEN <<Payment(now, last.amount)>>
                             ELSE <<>>

\* a check made next sees, under every key, exactly its young records
SeenByNextCheck ==
    \A key \in DOMAIN history \cup Supplied :
        /\ get_total_payments(trackers, key, now).total = WindowTotal(key)
        /\ HasTracker(trackers, key)
        /\ clean_old_payments(trackers[key], now) = Young(HistoryOf(key))

\* C7 as stated: add_payment appends exactly one record of the amount under
\* each key it is given and nothing under any other key.
C7_OneRecordPerSuppliedKey ==
    AddReturned => OneRecordEach

\* C7: when the keys it is given are different strings, add_payment appends
\* exactly one record of the amount under each of them and nothing under any
\* other key, and a check made next sees the new totals.
C7_OneRecordPerDistinctKey ==
    (AddReturned /\ Cardinality(Supplied) = Len(SuppliedKeys))
        => (OneRecordEach /\ SeenByNextCheck)

\* an add_payment call with an ip, an address and a user, all different, has
\* returned, and each of its keys had a record before it
C7_Witness ==
    /\ AddReturned
    /\ Len(SuppliedKeys) = 3 /\ Cardinality(Supplied) = 3
    /\ \A key \in Supplied : BeforeOf(key) # <<>>
    /\ OneRecordEach

\* ------------------------------------------------------------ the payjoin pipeline's contract

\* the payjoin requests in flight and the one that returned last
Payjoins == {r \in Requests : r.rail = "payjoin"}

\* the request entered the stage
Ran(r, stage) == \E i \in DOMAIN r.trace : r.trace[i] = stage

\* how many times the request entered the stage
Times(r, stage) == Cardinality({i \in DOMAIN r.trace : r.trace[i] = stage})

\* where in its run the request entered the stage first, 0 if it did not
Position(r, stage) ==
    IF Ran(r, stage)
    THEN CHOOSE i \in DOMAIN r.trace :
            /\ r.trace[i] = stage
            /\ \A j \in 1..(i - 1) : r.trace[j] # stage
    ELSE 0

\* the validation stages in the order the protocol gives them
ValidationStages ==
    <<"from_request", "check_can_broadcast", "check_inputs_not_owned",
      "check_no_mixed_input_scripts", "check_no_inputs_seen_before",
      "identify_receiver_outputs">>

\* the steps that follow validation
SelectionStages ==
    {"list_unspent", "try_preserving_privacy", "lease_output",
     "contribute_witness_input"}

SigningStages ==
    {"new_address", "substitute_output_address", "fund_psbt", "sign_psbt",
     "finalize_psbt", "base64_encode"}

\* the validation stage at which the proposal has to be turned down, 0 if
\* at none
FailingStage(proposal) ==
    IF ~proposal.parses THEN 1
    ELSE IF proposal.mempool # "allowed" THEN 2
    ELSE IF proposal.owned THEN 3
    ELSE IF proposal.mixed THEN 4
    ELSE IF ~proposal.receiver_output THEN 6
    ELSE 0

\* C11: a payjoin request runs the validation stages in the order parse,
\* broadcastable, inputs not owned, no mixed input scripts, no inputs seen
\* before, identify receiver outputs, each once, and runs nothing after the
\* stage that turned the proposal down; the ownership oracle is not asked
\* when the broadcast check fails.
C11_StagesInOrder ==
    \A r \in Payjoins :
        LET k == FailingStage(Unwrap(r.proposal))
            n == IF k = 0 THEN Len(ValidationStages) ELSE k
        IN /\ Len(r.trace) >= n
           /\ SubSeq(r.trace, 1, n) = SubSeq(ValidationStages, 1, n)
           /\ \A i \in DOMAIN ValidationStages : Times(r, ValidationStages[i]) <= 1
           /\ k # 0 => Len(r.trace) = k

\* a proposal that fails the broadcast check and has an input of the faucet
\* has returned: the ownership oracle was not asked
C11_Witness ==
    /\ last.rail = "payjoin" /\ last.pc = "done"
    /\ Unwrap(last.proposal).parses
    /\ Unwrap(last.proposal).mempool = "rejected"
    /\ Unwrap(last.proposal).owned
    /\ last.trace = <<"from_request", "check_can_broadcast">>

\* C12: a proposal with an input the ownership oracle reports as the
\* faucet's is turned down, at the ownership check when it got that far, and
\* no input selection, lease, address generation or signing runs for it.
C12_OwnedInputRejected ==
    \A r \in Payjoins :
        Unwrap(r.proposal).owned =>
            /\ r.pc = "done" /\ r.result # "ok"
            /\ \A stage \in SelectionStages \cup SigningStages : ~Ran(r, stage)
            /\ r.selected = None /\ r.contributed = None /\ r.rpc = "none"
            /\ (Unwrap(r.proposal).parses /\ Unwrap(r.proposal).mempool = "allowed")
                  => r.result = "Failed to validate inputs"

\* a proposal whose only fault is an input of the faucet has been turned down
C12_Witness ==
    /\ last.rail = "payjoin" /\ last.pc = "done"
    /\ Unwrap(last.proposal) =
          [parses |-> TRUE, input |-> "in1", mempool |-> "allowed", owned |-> TRUE,
           mixed |-> FALSE, receiver_output |-> TRUE]
    /\ last.result = "Failed to validate inputs"

\* C13: a proposal whose inputs are of mixed script types is turned down,
\* with the mixed-scripts rejection when the stages before it passed and
\* whatever the later ones would find, and never reaches input contribution
\* or signing.
C13_MixedScriptsRejected ==
    \A r \in Payjoins :
        Unwrap(r.proposal).mixed =>
            /\ r.pc = "done" /\ r.result # "ok"
            /\ \A stage \in SelectionStages \cup SigningStages : ~Ran(r, stage)
            /\ r.contributed = None /\ r.rpc = "none"
            /\ (/\ Unwrap(r.proposal).parses
                /\ Unwrap(r.proposal).mempool = "allowed"
                /\ ~Unwrap(r.proposal).owned)
                  => r.result = "Failed to validate input scripts"

\* a proposal whose only fault is its mixed input scripts has been turned down
C13_Witness ==
    /\ last.rail = "payjoin" /\ last.pc = "done"
    /\ Unwrap(last.proposal) =
          [parses |-> TRUE, input |-> "in1", mempool |-> "allowed", owned |-> FALSE,
           mixed |-> TRUE, receiver_output |-> TRUE]
    /\ last.result = "Failed to validate input scripts"

\* the last stage the request entered
LastStage(r) == IF r.trace = <<>> THEN "none" ELSE r.trace[Len(r.trace)]

\* try_contributing_inputs returned an error to payjoin_request: the listing
\* failed, nothing was listed or selected, or the lease was refused
ContributionFailed(r) ==
    /\ Ran(r, "list_unspent")
    /\ ~Ran(r, "contribute_witness_input")
    /\ r.pc # "lease_output"
    /\ ~(r.result = "panic" /\ LastStage(r) = "list_unspent")

\* C14: when try_contributing_inputs fails because the listing fails, the
\* wallet has no output, none is selected or the lease is refused, the
\* request goes on to the new address, the substitution and the
\* finalization with no input contributed.
C14_ContributionBestEffort ==
    \A r \in Payjoins :
        ContributionFailed(r) =>
            /\ r.contributed = None
            /\ r.pc \in {"new_address", "done"}
            /\ r.pc = "done" => Ran(r, "new_address")
            /\ r.result = "ok" <=> Ran(r, "base64_encode")

\* a request whose lease was refused has finished successfully with no
\* input contributed
C14_Witness ==
    /\ last.rail = "payjoin" /\ last.pc = "done"
    /\ ContributionFailed(last)
    /\ Ran(last, "lease_output")
    /\ last.contributed = None
    /\ last.result = "ok" /\ IsSome(last.body)

\* C15: a payjoin request contributes at most one input of the faucet, and
\* only right after the node granted the lease on the very output it
\* selected; it may contribute none.
C15_OneLeasedInput ==
    \A r \in Payjoins :
        /\ Times(r, "contribute_witness_input") <= 1
        /\ IsSome(r.contributed) <=> Ran(r, "contribute_witness_input")
        /\ Ran(r, "contribute_witness_input") =>
              /\ r.contributed = r.selected
              /\ Position(r, "lease_output") = Position(r, "contribute_witness_input") - 1
              /\ \E l \in leases :
                    l.outpoint = Unwrap(r.contributed) /\ l.id = LeaseId

\* a request has finished after contributing the output it holds a lease on
C15_Witness ==
    /\ last.rail = "payjoin" /\ last.pc = "done" /\ last.result = "ok"
    /\ IsSome(last.contributed)
    /\ \E l \in leases : l.outpoint = Unwrap(last.contributed)

\* C16: whatever the interleaving of two payjoin requests, the two proposals
\* in flight never both contribute the same output of the faucet.
C16_LeaseExclusive ==
    \A t, u \in Tasks :
        (/\ t # u
         /\ task[t].rail = "payjoin" /\ task[u].rail = "payjoin"
         /\ IsSome(task[t].contributed) /\ IsSome(task[u].contributed))
            => task[t].contributed # task[u].contributed

\* C17: in every payjoin request that reaches signing, the output address is
\* substituted once, with an address obtained from the node after the
\* receiver outputs were identified, and before the signing callback
\* (fund_psbt, then sign_psbt) is called.
C17_SubstitutionBeforeSigning ==
    \A r \in Payjoins :
        Ran(r, "sign_psbt") =>
            /\ Times(r, "substitute_output_address") = 1
            /\ 0 < Position(r, "identify_receiver_outputs")
            /\ Position(r, "identify_receiver_outputs") < Position(r, "new_address")
            /\ Position(r, "new_address") < Position(r, "substitute_output_address")
            /\ Position(r, "substitute_output_address") < Position(r, "fund_psbt")
            /\ Position(r, "fund_psbt") < Position(r, "sign_psbt")

\* a request has been signed and has finished
C17_Witness ==
    /\ last.rail = "payjoin" /\ last.pc = "done" /\ last.result = "ok"
    /\ Ran(last, "sign_psbt")
    /\ Ran(last, "substitute_output_address")

\* C18: the signing callback is called once for a proposal that reaches
\* finalization and never for one that was turned down; when it was called
\* the request has either a signed psbt, and goes on to finalize_psbt, or
\* ends with the signing error.
C18_CallbackOnceSignedOrError ==
    \A r \in Payjoins :
        /\ Times(r, "fund_psbt") <= 1 /\ Times(r, "sign_psbt") <= 1
        /\ FailingStage(Unwrap(r.proposal)) # 0 =>
              (~Ran(r, "fund_psbt") /\ ~Ran(r, "sign_psbt"))
        /\ (Ran(r, "fund_psbt") /\ r.pc = "done") =>
              \/ Ran(r, "finalize_psbt")
              \/ r.result = "Failed to finalize proposal"

\* C19: payjoin_request answers with a body only when parsing, every
\* validation stage, the substitution, the signing and finalize_psbt all
\* succeeded, and the body is the base64 text of the psbt that finalize_psbt
\* returned.
C19_BodyIsFinalizedPsbt ==
    \A r \in Payjoins :
        /\ IsSome(r.body) <=> r.result = "ok"
        /\ r.result = "ok" =>
              /\ FailingStage(Unwrap(r.proposal)) = 0
              /\ \A i \in DOMAIN ValidationStages : Ran(r, ValidationStages[i])
              /\ \A stage \in SigningStages : Ran(r, stage)
              /\ r.rpc = "ok"
              /\ IsSome(r.finalized)
              /\ IsSome(PsbtFromStr(Unwrap(r.finalized)))
              /\ PsbtFromStr(Unwrap(r.body)) = PsbtFromStr(Unwrap(r.finalized))

\* a request has answered with a body after the node wrote the finalized
\* psbt with its keys in another order
C19_Witness ==
    /\ last.rail = "payjoin" /\ last.pc = "done" /\ last.result = "ok"
    /\ last.finalized = Some("cHNidP8ba")
    /\ IsSome(last.body)

\* C20: no failure while a payjoin request is handled makes its task panic.
C20_NoPanic ==
    \A r \in Payjoins : r.result # "panic"

\* ------------------------------------------------------------ errors, locks and the map

\* the handlers that make an admission check
CheckedRails == {"onchain", "lightning", "lnurlw", "channel"}

\* C21: on every rail a request turned down by the admission check returns
\* "Too many payments", which the rail returns for nothing else, and makes
\* no call to the node.
C21_RejectionIsDistinct ==
    \A r \in Requests :
        r.rail \in CheckedRails =>
            /\ r.check = "reject" =>
                  (r.pc = "done" /\ r.result = "Too many payments" /\ r.rpc = "none")
            /\ r.result = "Too many payments" => r.check = "reject"

\* C22: the keys of the tracker map are exactly the keys a payment was ever
\* recorded under: a read of an unknown key returns 0 and makes no tracker,
\* and eviction, even of every record of a key, removes no key.
C22_KeysAreRecordedKeys ==
    /\ DOMAIN trackers = DOMAIN history
    /\ (TotalReturned /\ last.ip \notin DOMAIN history) => last.total = 0
    /\ (VerifyReturned /\ last.ip \notin DOMAIN history) =>
          last.total = OptionTotal(last.address) + OptionTotal(UserKeyOption(last.user))

\* the total of a key never recorded has been read while the map holds a
\* key whose records were all evicted
C22_Witness ==
    /\ TotalReturned
    /\ last.ip \notin DOMAIN history
    /\ last.total = 0
    /\ \E key \in DOMAIN trackers : trackers[key] = <<>> /\ history[key] # <<>>

\* C23: no task holds the guard of the ledger's map while it awaits the node:
\* every request that awaited an answer of the node held no guard then, and
\* wherever a task is suspended or has returned, its guard is dropped
C23_NoGuardAcrossRpc ==
    \A r \in Requests : r.guard = "none" /\ ~r.held_at_rpc

\* an on-chain request that locked the map four times (the check and three
\* records) and then had the node send the coins
C23_Witness ==
    /\ last.rail = "onchain"
    /\ last.check = "accept"
    /\ Len(last.recorded) = 3
    /\ last.rpc = "ok"
    /\ ~last.held_at_rpc

\* C24: a proposal is turned down at check_no_inputs_seen_before when its
\* input appeared in a proposal processed before: two proposals that spend
\* the same input never both pass that stage.
C24_SeenInputRejected ==
    \A t, u \in Tasks :
        (/\ t # u
         /\ task[t].rail = "payjoin" /\ task[u].rail = "payjoin"
         /\ Ran(task[t], "identify_receiver_outputs")
         /\ Ran(task[u], "identify_receiver_outputs"))
            => Unwrap(task[t].proposal).input # Unwrap(task[u].proposal).input

\* C25: every lease a payjoin request takes is asked for LeaseSeconds (30)
\* and is never released by the faucet: a lease the node holds is the
\* faucet's, ends within LeaseSeconds from now and is gone once that time
\* has come, and a request that contributed an output returns, whatever its
\* outcome, with the lease on it still held.
C25_LeasesExpire ==
    /\ \A l \in leases :
          /\ l.id = LeaseId
          /\ now < l.expires
          /\ l.expires <= now + LeaseSeconds
    /\ \A r \in Payjoins :
          IsSome(r.contributed) =>
              \E l \in leases : l.outpoint = Unwrap(r.contributed)

\* a request whose signing failed has returned and the lease it took is
\* held, for thirty seconds from now
C25_Witness ==
    /\ last.rail = "payjoin" /\ last.pc = "done"
    /\ last.result = "Failed to finalize proposal"
    /\ IsSome(last.contributed)
    /\ \E l \in leases :
          l.outpoint = Unwrap(last.contributed) /\ l.expires = now + LeaseSeconds

\* C26: when the call a validation stage makes to the node fails, the request
\* is turned down with an error, and that error is not the one the stage
\* gives when the node answers that the transaction is not allowed.
C26_OracleFailureIsAnError ==
    \A r \in Payjoins :
        (Unwrap(r.proposal).parses /\ Unwrap(r.proposal).mempool = "err") =>
            /\ r.pc = "done"
            /\ r.result \notin {"ok", "panic"}
            /\ r.result # "Failed to broadcast"

\* the request is of a proposal that parsing or a validation stage turns down
TurnedDown(r) ==
    r.rail = "payjoin" /\ FailingStage(Unwrap(r.proposal)) # 0

\* C27: a payjoin request turned down at parsing or at a validation stage
\* leaves nothing behind: the step in which it returns changes neither the
\* ledger, nor the leases, nor the sends, nor any task, and the request
\* listed, selected, leased and contributed no output, asked for no address,
\* and had nothing funded, signed or finalized.
C27_RejectionLeavesNothing ==
    [][TurnedDown(last') =>
          /\ trackers' = trackers /\ history' = history
          /\ leases' = leases /\ sends' = sends
          /\ task' = task
          /\ last'.pc = "done" /\ last'.result # "ok"
          /\ \A stage \in SelectionStages \cup SigningStages : ~Ran(last', stage)
          /\ last'.recorded = <<>>
          /\ last'.selected = None /\ last'.contributed = None
          /\ last'.rpc = "none"
          /\ last'.finalized = None /\ last'.body = None]_vars

\* a proposal with no output to the faucet has been turned down while
\* another request holds a lease
C27_Witness ==
    /\ TurnedDown(last)
    /\ last.result = "Failed to identify receiver outputs"
    /\ leases # {}
    /\ \E t \in Tasks : task[t].rail = "payjoin" /\ IsSome(task[t].contributed)

\* the times of the records never decrease along the sequence
InTimeOrder(payments) ==
    \A i \in 1..(Len(payments) - 1) : payments[i].time <= payments[i + 1].time

\* kept is what is left of all after some of its first records were removed
IsSuffix(kept, all) ==
    /\ Len(kept) <= Len(all)
    /\ kept = SubSeq(all, Len(all) - Len(kept) + 1, Len(all))

\* C28: whatever the interleaving of records and totals, the records of each
\* key are in non-decreasing order of time and are the records ever appended
\* under the key less some of the first ones; after a total of a key, none
\* of the records left under it is CACHE_DURATION old or older.
C28_OrderedAndPrefixEvicted ==
    /\ \A key \in DOMAIN trackers :
          /\ InTimeOrder(trackers[key])
          /\ IsSuffix(trackers[key], HistoryOf(key))
    /\ (TotalReturned /\ HasTracker(trackers, last.ip)) =>
          \A i \in DOMAIN trackers[last.ip] :
              now - trackers[last.ip][i].time < CACHE_DURATION

\* a total has been read for a key with records made at different times,
\* the first of them evicted and a later one left
C28_Witness ==
    /\ TotalReturned
    /\ HasTracker(trackers, last.ip)
    /\ trackers[last.ip] # <<>>
    /\ Len(trackers[last.ip]) < Len(HistoryOf(last.ip))
    /\ HistoryOf(last.ip)[1].time < trackers[last.ip][1].time

\* the keys the verify_payments or get_total_payments call that returned
\* in the latest step has read
ReadKeys ==
    IF TotalReturned THEN {last.ip}
    ELSE IF VerifyReturned THEN Supplied
    ELSE {}

\* the keys an add_payment call under way has yet to record its payment
\* under, its ip key being recorded
PendingKeys(tk) ==
    IF tk.pc = "add_payment_address"
    THEN {Unwrap(tk.address)} \cup {UserKey(Unwrap(u)) : u \in {tk.user} \ {None}}
    ELSE IF tk.pc = "add_payment_user" THEN {UserKey(Unwrap(tk.user))}
    ELSE {}

\* C29: a record under several keys is atomic for the checks: no
\* verify_payments or get_total_payments call reads a key while a payment is
\* recorded under its ip key and not yet under that key.
C29_RecordAtomicForChecks ==
    \A t \in Tasks : ReadKeys \cap PendingKeys(task[t]) = {}

\* C30: every invoice pay_lightning hands to the node for payment names an
\* amount, of MAX_SEND_AMOUNT satoshis at most, whether the invoice was
\* given, fetched through an lnurl or fetched through the lnurl of a nostr
\* profile.
C30_SentInvoiceBounded ==
    \A r \in Requests :
        (r.rail \in {"lightning", "lnurlw"} /\ r.rpc # "none") =>
            /\ IsSome(r.invoice)
            /\ IsSome(Unwrap(r.invoice).amount_msat)
            /\ InvoiceSats(Unwrap(r.invoice)) <= MAX_SEND_AMOUNT

\* C31: open_channel asks the node to open a channel only when
\* 0 <= push_amount <= capacity <= MAX_SEND_AMOUNT, and the amount it
\* records after the channel is opened is the capacity: the cast to u64
\* does not change it.
C31_ChannelAmountInRange ==
    \A r \in Requests :
        (r.rail = "channel" /\ r.rpc # "none") =>
            /\ 0 <= r.push_sat
            /\ r.push_sat <= r.funding
            /\ r.funding <= MAX_SEND_AMOUNT
            /\ r.recorded # <<>> =>
                  /\ ~WrapsAsU64(r.funding)
                  /\ r.amount = r.funding
                  /\ r.recorded = <<r.ip>>
                  /\ HistoryOf(r.ip)[Len(HistoryOf(r.ip))].amount = r.funding

\* a channel of MAX_SEND_AMOUNT has been opened and recorded
C31_Witness ==
    /\ last.rail = "channel" /\ last.pc = "done" /\ last.result = "ok"
    /\ last.rpc = "ok"
    /\ last.funding = MAX_SEND_AMOUNT
    /\ last.recorded = <<last.ip>>
    /\ HistoryOf(last.ip)[Len(HistoryOf(last.ip))].amount = MAX_SEND_AMOUNT

\* the bodies of the on-chain requests
OnchainRequests == [address : AddressInputs, sats : SatsInputs]

\* the request names no address, an address of another network, no amount,
\* or an amount above MAX_SEND_AMOUNT
OnchainFault(payload) ==
    LET params == PaymentParamsFromStr(payload.address)
    IN \/ ~params.ok
       \/ ~IsSome(params.address)
       \/ Unwrap(params.address).network # Network
       \/ (~IsSome(params.amount) /\ ~IsSome(payload.sats))
       \/ (IsSome(params.amount) /\ Unwrap(params.amount) > MAX_SEND_AMOUNT)
       \/ (~IsSome(params.amount) /\ IsSome(payload.sats)
              /\ Unwrap(payload.sats) > MAX_SEND_AMOUNT)

FaultyOnchainRequests == {payload \in OnchainRequests : OnchainFault(payload)}

\* the step is the whole life of an on-chain request with a fault: it
\* returns an error, with nothing recorded and nothing sent
FaultyOnchainStep ==
    \A t \in Tasks, header \in HeaderInputs, user \in UserInputs,
       payload \in FaultyOnchainRequests :
          onchain_handler(t, header, user, payload) =>
              /\ last'.pc = "done" /\ last'.result # "ok"
              /\ last'.recorded = <<>> /\ last'.rpc = "none"
              /\ history' = history
              /\ sends' = sends
              /\ task' = task

\* the step is a send_coins call that the node answers with success: what
\* it sends is what the request recorded, to the destination it recorded
\* under
SendMatchesRecord ==
    \A t \in Tasks :
        send_coins(t, TRUE) =>
            LET r == task[t]
                sent == sends'[Len(sends')]
            IN /\ Len(sends') = Len(sends) + 1
               /\ Len(r.recorded) = 3
               /\ sent.dest = r.recorded[2]
               /\ \A i \in DOMAIN r.recorded :
                     \E j \in DOMAIN HistoryOf(r.recorded[i]) :
                        HistoryOf(r.recorded[i])[j].amount = sent.amount
               /\ sent.amount <= MAX_SEND_AMOUNT

\* C32: pay_onchain neither records nor sends for a request whose amount is
\* above MAX_SEND_AMOUNT, whose address is invalid or of another network,
\* or that names no amount; when it sends, the amount recorded is the
\* amount sent and the destination key recorded is the address sent to.
C32_OnchainChecksBeforeRecord ==
    [][FaultyOnchainStep /\ SendMatchesRecord]_vars

\* MAX_SEND_AMOUNT has been sent to a destination that has a record of that
\* amount, and pay_onchain has just turned down a request with a fault
C32_Witness ==
    /\ sends # <<>>
    /\ \E i \in DOMAIN sends :
          /\ sends[i].amount = MAX_SEND_AMOUNT
          /\ \E j \in DOMAIN HistoryOf(sends[i].dest) :
                HistoryOf(sends[i].dest)[j].amount = sends[i].amount
    /\ last.rail = "onchain" /\ last.pc = "done"
    /\ last.check = "accept"
    /\ last.result \in {"max amount is 1,000,000", "invalid amount",
                         "invalid address, are you sure that's a signet address?"}

\* nothing was recorded under key for CACHE_DURATION
QuietFor24h(key) ==
    \A i \in DOMAIN HistoryOf(key) : now - HistoryOf(key)[i].time >= CACHE_DURATION

\* C33: the window rolls: when nothing was recorded under any key of a
\* check for 24 hours, the check accepts, whatever was recorded before: the
\* totals it reads are 0, verify_payments answers false and the total that
\* get_total_payments returns passes the test of the handlers.
C33_QuietKeysAdmitted ==
    /\ (VerifyReturned /\ \A key \in Supplied : QuietFor24h(key)) =>
          /\ last.check = "accept"
          /\ last.total = 0 /\ last.addr_amt = 0
    /\ (TotalReturned /\ QuietFor24h(last.ip)) =>
          /\ last.total = 0
          /\ ~TotalDecision(last.total)

\* a requester with 10 * MAX_SEND_AMOUNT on record under its ip, and with
\* records under its destination, is admitted 24 hours later
C33_Witness ==
    /\ VerifyReturned
    /\ last.check = "accept"
    /\ IsSome(last.address)
    /\ \A key \in Supplied : QuietFor24h(key) /\ HistoryOf(key) # <<>>
    /\ SumAmounts(HistoryOf(last.ip)) >= MAX_SEND_AMOUNT * 10

\* ------------------------------------------------------------ specification

Next ==
    \/ \E t \in Tasks :
          \/ Onchain(t)
          \/ Channel(t)
          \/ Lightning(t)
          \/ Payjoin(t)
          \/ add_payment_ip(t)
          \/ add_payment_address(t)
          \/ add_payment_user(t)
    \/ into_response
    \/ Tick

Spec == Init /\ [][Next]_vars

SpecPrior == InitPrior /\ [][Next]_vars

SpecLedger == Init /\ [][NextLedger]_vars

\* the on-chain rail alone: the requests to /api/onchain, interleaved
NextOnchain ==
    \/ \E t \in Tasks :
          \/ Onchain(t)
          \/ add_payment_ip(t)
          \/ add_payment_address(t)
          \/ add_payment_user(t)
    \/ into_response
    \/ Tick

SpecOnchain == Init /\ [][NextOnchain]_vars

====
